---- MODULE Spec2Model ----
(***************************************************************************)
(* A model of the two scripts of the repository:                           *)
(*   tracer_to_real_code.py  trace log -> per-file listings / HTML         *)
(*   dump_code.py            coverage-report HTML -> plain source text     *)
(* Text is a sequence of one-character strings, so that the regular        *)
(* expression, str.replace, str.split, str.strip, int() and str() are      *)
(* computed character by character as Python computes them.                *)
(* The file system is the functions `files` and `dirs`; its calls succeed  *)
(* (every path of the log names a readable source file), and the only      *)
(* exceptions are the ones the scripts raise themselves: the IndexError of *)
(* get_code_line and the TypeError of f.write(None + '\n').                *)
(***************************************************************************)
EXTENDS Integers, Sequences, FiniteSets, TLC

VARIABLES
    log,            \* the trace log: a sequence of lines
    relative_path,  \* the filter string (second command-line argument)
    tool,           \* "html": the HTML renderer; "text": the plain-text variant; "dump"
    source,         \* the lines of the original source files (readlines())
    pc,             \* position of the running script
    idx,            \* loop index (log line, dictionary key, report file, output line)
    result,         \* extract_info_from_file's dictionary: path -> list of pairs
    keys,           \* the dictionary's keys in insertion order
    files,          \* the file system's regular files written so far: location -> content
    dirs,           \* the directories created by os.makedirs
    produced,       \* history of open(..., 'w') calls: <<path or report, location>>
    reports,        \* dump_code: the report files os.walk yields, in order
    code_lines,     \* dump_code: extract_code_from_html's local list
    error           \* the uncaught exception that ended the run, or "none"

vars == <<log, relative_path, tool, source, pc, idx, result, keys, files, dirs,
          produced, reports, code_lines, error>>

----------------------------------------------------------------------------
(* Bounds of the model *)

MaxLogLen == 3
MaxFiles == 2
MaxMarkers == 3

----------------------------------------------------------------------------
(* Characters and strings *)

NL == "\n"
TAB == "\t"

Digits == <<"0", "1", "2", "3", "4", "5", "6", "7", "8", "9">>

IsDigit(c) == \E d \in 1..10 : Digits[d] = c

DigitVal(c) == (CHOOSE d \in 1..10 : Digits[d] = c) - 1

\* str.isspace of one character, as used by \s and str.strip()
IsSpace(c) == c \in {" ", TAB, NL, "\r"}

Range(s) == {s[k] : k \in 1..Len(s)}

\* s[a:] of Python, a >= 0 (0-based)
Drop(s, a) == IF a >= Len(s) THEN <<>> ELSE SubSeq(s, a + 1, Len(s))

\* s[:a] of Python
Take(s, a) == IF a <= 0 THEN <<>> ELSE SubSeq(s, 1, IF a > Len(s) THEN Len(s) ELSE a)

\* whether old occurs in s at 1-based position k
OccursAt(s, old, k) ==
    /\ k >= 1
    /\ k + Len(old) - 1 <= Len(s)
    /\ \A j \in 1..Len(old) : s[k + j - 1] = old[j]

\* a variant of the filter test: `s.startswith(old)`
ContainsAsPrefix(s, old) == OccursAt(s, old, 1)

\* Python's `old in s`
Contains(s, old) == \E k \in 1..(Len(s) + 1) : OccursAt(s, old, k)

StartsWith(s, p) == OccursAt(s, p, 1)

EndsWith(s, p) == Len(p) <= Len(s) /\ OccursAt(s, p, Len(s) - Len(p) + 1)

\* int(s) for a string of decimal digits
RECURSIVE IntOf(_)
IntOf(s) == IF s = <<>> THEN 0
            ELSE 10 * IntOf(SubSeq(s, 1, Len(s) - 1)) + DigitVal(s[Len(s)])

\* str(n) for n >= 0
RECURSIVE Str(_)
Str(n) == IF n < 10 THEN <<Digits[n + 1]>>
          ELSE Str(n \div 10) \o <<Digits[(n % 10) + 1]>>

\* str.rjust(width)
RECURSIVE RJust(_, _)
RJust(s, w) == IF Len(s) >= w THEN s ELSE RJust(<<" ">> \o s, w)

----------------------------------------------------------------------------
(* tracer_to_real_code.py: extract_info_from_file *)

\* the end (1-based, inclusive) of the longest run of digits starting at k
RECURSIVE DigitsEnd(_, _)
DigitsEnd(line, k) ==
    IF k <= Len(line) /\ IsDigit(line[k]) THEN DigitsEnd(line, k + 1) ELSE k - 1

\* a variant of the pattern in which the colon is optional:  \((\d+)\):?\s
MatchAtOptionalColon(line, k) ==
    LET e == DigitsEnd(line, k + 1)
    IN  /\ k <= Len(line)
        /\ line[k] = "("
        /\ e >= k + 1
        /\ e + 3 <= Len(line)
        /\ line[e + 1] = ")"
        /\ \/ line[e + 2] = ":" /\ IsSpace(line[e + 3])
           \/ IsSpace(line[e + 2])

\* whether  \((?P<lineno>\d+)\):\s  matches at position k
MatchAt(line, k) ==
    LET e == DigitsEnd(line, k + 1)
    IN  /\ k <= Len(line)
        /\ line[k] = "("
        /\ e >= k + 1
        /\ e + 3 <= Len(line)
        /\ line[e + 1] = ")"
        /\ line[e + 2] = ":"
        /\ IsSpace(line[e + 3])

\* the prefix of s before its first newline (what `.*` consumes)
RECURSIVE UpToNewline(_)
UpToNewline(s) ==
    IF s = <<>> \/ Head(s) = NL THEN <<>> ELSE <<Head(s)>> \o UpToNewline(Tail(s))

\* whether the pattern has a match in the line
Matches(line) == \E k \in 1..Len(line) : MatchAt(line, k)

\* re.finditer(pattern, line) on one line of the file (a line holds a newline
\* only as its last character): the non-greedy path ends at the first place
\* where the rest of the pattern matches, and the greedy code runs to the end
\* of the line, so there is at most one match: <<path, lineno, code>>.
pattern(line) ==
    IF ~Matches(line) THEN <<>>
    ELSE LET k == CHOOSE k \in 1..Len(line) :
                    MatchAt(line, k) /\ \A j \in 1..(k - 1) : ~MatchAt(line, j)
             e == DigitsEnd(line, k + 1)
         IN  << <<Take(line, k - 1),
                  SubSeq(line, k + 1, e),
                  UpToNewline(Drop(line, e + 3))>> >>

\* the permutations of a finite set, as sequences
RECURSIVE Perms(_)
Perms(S) ==
    IF S = {} THEN {<<>>}
    ELSE UNION {{<<x>> \o t : t \in Perms(S \ {x})} : x \in S}

\* list order by the key int(x[0])
SortedByLineno(s) ==
    \A a, b \in 1..Len(s) : a < b => IntOf(s[a][1]) <= IntOf(s[b][1])

\* the order of two strings of digits as strings
RECURSIVE TextLeq(_, _)
TextLeq(a, b) ==
    IF a = <<>> THEN TRUE
    ELSE IF b = <<>> THEN FALSE
    ELSE IF Head(a) # Head(b) THEN DigitVal(Head(a)) < DigitVal(Head(b))
    ELSE TextLeq(Tail(a), Tail(b))

\* a variant of the sort with the key x[0], the text of the number
SortedSetByText(lst) ==
    {s \in Perms(Range(lst)) :
        \A a, b \in 1..Len(s) : a < b => TextLeq(s[a][1], s[b][1])}

\* sorted(set(lst), key=lambda x: int(x[0])): the set's iteration order is
\* not defined and the sort is stable, so pairs with equal keys come out in
\* any order.
SortedSet(lst) == {s \in Perms(Range(lst)) : SortedByLineno(s)}

----------------------------------------------------------------------------
(* tracer_to_real_code.py: create_files_and_write_info, convert_to_html *)

\* str.replace(old, new): every non-overlapping occurrence, left to right
RECURSIVE Replace(_, _, _)
Replace(s, old, new) ==
    IF old = <<>>
    THEN IF s = <<>> THEN new ELSE new \o <<Head(s)>> \o Replace(Tail(s), old, new)
    ELSE IF s = <<>> THEN <<>>
    ELSE IF OccursAt(s, old, 1) THEN new \o Replace(Drop(s, Len(old)), old, new)
    ELSE <<Head(s)>> \o Replace(Tail(s), old, new)

\* fpath of create_files_and_write_info
RewritePath(path, rel) ==
    LET fpath == Replace(path, rel, <<>>)
    IN  IF StartsWith(fpath, <<"/">>) THEN Drop(path, 1) ELSE fpath

\* os.path.dirname(os.path.abspath(__file__)): the directory of the script
current_dir == <<"/", "t">>

\* os.path.join(a, b)
Join(a, b) ==
    IF StartsWith(b, <<"/">>) THEN b
    ELSE IF a = <<>> \/ EndsWith(a, <<"/">>) THEN a \o b
    ELSE a \o <<"/">> \o b

\* s.rstrip('/')
RECURSIVE RStripSep(_)
RStripSep(s) ==
    IF s # <<>> /\ s[Len(s)] = "/" THEN RStripSep(SubSeq(s, 1, Len(s) - 1)) ELSE s

\* os.path.dirname(p)
Dirname(p) ==
    LET seps == {k \in 1..Len(p) : p[k] = "/"}
        head == IF seps = {} THEN <<>>
                ELSE Take(p, CHOOSE k \in seps : \A j \in seps : j <= k)
    IN  IF head # <<>> /\ \E k \in 1..Len(head) : head[k] # "/"
        THEN RStripSep(head) ELSE head

\* os.makedirs(d, exist_ok=True): d and the directories above it
RECURSIVE MakeDirs(_)
MakeDirs(d) ==
    IF d = <<>> THEN {}
    ELSE IF Dirname(d) = d THEN {d}
    ELSE {d} \cup MakeDirs(Dirname(d))

\* html.escape of one character (quote=True)
EscapeChar(c) ==
    CASE c = "&" -> <<"&", "a", "m", "p", ";">>
      [] c = "<" -> <<"&", "l", "t", ";">>
      [] c = ">" -> <<"&", "g", "t", ";">>
      [] c = "\"" -> <<"&", "q", "u", "o", "t", ";">>
      [] c = "'" -> <<"&", "#", "x", "2", "7", ";">>
      [] OTHER -> <<c>>

\* html.escape(line)
RECURSIVE Escape(_)
Escape(line) ==
    IF line = <<>> THEN <<>> ELSE EscapeChar(Head(line)) \o Escape(Tail(line))

\* a variant of the membership test that compares numbers: i in map(int, ...)
HighlightedByValue(i, highlighted_lines) ==
    \E k \in 1..Len(highlighted_lines) : IntOf(highlighted_lines[k]) = i

\* `str(i) in highlighted_lines`
Highlighted(i, highlighted_lines) ==
    \E k \in 1..Len(highlighted_lines) : highlighted_lines[k] = Str(i)

\* the <tr> that convert_to_html adds for line i: the line-number cell (its
\* data-value, whether its style carries color: blue, its right-justified
\* label) and the code cell (whether it is the blue "highlight" cell, its
\* escaped text)
HtmlRow(i, line, width, highlighted_lines) ==
    [data_value |-> Str(i),
     number_blue |-> Highlighted(i, highlighted_lines),
     label |-> RJust(Str(i), width),
     code_blue |-> Highlighted(i, highlighted_lines),
     text |-> Escape(line)]

\* the table rows convert_to_html writes for the lines of the input file
\* (the head and the tail of the document are constant text)
convert_to_html(lines, highlighted_lines) ==
    LET max_line_num_width == Len(Str(Len(lines)))
    IN  [i \in 1..Len(lines) |->
            HtmlRow(i, lines[i], max_line_num_width, highlighted_lines)]

\* yellow_lines: the first component of every record, in list order
YellowLines(info_list) == [k \in 1..Len(info_list) |-> info_list[k][1]]

\* the plain-text variant's output: one line "<lineno> : <code>\n" per record
WriteInfo(info_list) ==
    [k \in 1..Len(info_list) |->
        info_list[k][1] \o <<" ", ":", " ">> \o info_list[k][2] \o <<NL>>]

HtmlExt == <<".", "h", "t", "m", "l">>

----------------------------------------------------------------------------
(* The trace tool's inputs *)

PathMA == <<"/", "m", "/", "a">>
PathAA == <<"a", "/", "a">>

\* a log line  <path>(<lineno>): <code>
Rec(path, lineno, code) ==
    path \o <<"(">> \o lineno \o <<")", ":", " ">> \o code \o <<NL>>

\* four records of /m/a, a record of a/a whose whitespace is the newline,
\* and a line that is no record
LogLines ==
    { Rec(PathMA, <<"2">>, <<"x">>),
      Rec(PathMA, <<"1", "0">>, <<"y">>),
      Rec(PathMA, <<"2">>, <<"y">>),
      Rec(PathMA, <<"0", "2">>, <<"x">>),
      PathAA \o <<"(", "1", ")", ":", NL>>,
      PathMA \o <<"(", "2", ")", " ", "x", NL>> }

Filters == { <<"a">>, <<"/", "m">>, <<>> }

Sources ==
    { <<>>,
      << <<"a", "<", "b", NL>>, <<"&", NL>>, <<"x", NL>> >> }

\* the sequences over S of length at most n
RECURSIVE SeqsUpTo(_, _)
SeqsUpTo(S, n) ==
    IF n = 0 THEN {<<>>}
    ELSE LET shorter == SeqsUpTo(S, n - 1)
         IN  shorter \cup {Append(t, x) : t \in shorter, x \in S}

NoFiles == [loc \in {} |-> <<>>]

InitTrace ==
    /\ log \in SeqsUpTo(LogLines, MaxLogLen)
    /\ relative_path \in Filters
    /\ tool \in {"html", "text"}
    /\ source \in (IF tool = "html" THEN Sources ELSE {<<>>})
    /\ pc = "read"
    /\ idx = 1
    /\ result = NoFiles
    /\ keys = <<>>
    /\ files = NoFiles
    /\ dirs = {}
    /\ produced = {}
    /\ reports = <<>>
    /\ code_lines = <<>>
    /\ error = "none"

\* the body of `for line in file` (lines 61-70) on the dictionary d (its
\* values and its keys in insertion order)
AddLine(d, line) ==
    LET matches == pattern(line)
    IN  IF matches = <<>> THEN d
        ELSE LET path == matches[1][1]
                 rec == <<matches[1][2], matches[1][3]>>
             IN  IF path \in DOMAIN d.result
                 THEN [d EXCEPT !.result[path] = Append(@, rec)]
                 ELSE [result |-> (path :> <<rec>>) @@ d.result,
                       keys |-> Append(d.keys, path)]

\* one iteration of `for line in file` (lines 60-70)
ReadLine ==
    /\ pc = "read"
    /\ idx <= Len(log)
    /\ LET d == AddLine([result |-> result, keys |-> keys], log[idx])
       IN  /\ result' = d.result
           /\ keys' = d.keys
    /\ idx' = idx + 1
    /\ UNCHANGED <<log, relative_path, tool, source, pc, files, dirs, produced,
                   reports, code_lines, error>>

\* `for key in result: result[key] = sorted(set(...))` and the return (72-75)
SortKeys ==
    /\ pc = "read"
    /\ idx > Len(log)
    /\ result' \in {f \in [DOMAIN result ->
                            UNION {SortedSet(result[k]) : k \in DOMAIN result}] :
                       \A k \in DOMAIN result : f[k] \in SortedSet(result[k])}
    /\ pc' = "create"
    /\ idx' = 1
    /\ UNCHANGED <<log, relative_path, tool, source, keys, files, dirs, produced,
                   reports, code_lines, error>>

\* one iteration of `for path, info_list in result_map.items()` (79-101)
CreateFile ==
    /\ pc = "create"
    /\ idx <= Len(keys)
    /\ LET path == keys[idx]
           info_list == result[path]
           fpath == RewritePath(path, relative_path)
           target_file_path == Join(current_dir, fpath)
       IN  IF ~Contains(path, relative_path)
           THEN UNCHANGED <<files, dirs, produced>>
           ELSE /\ dirs' = dirs \cup MakeDirs(Dirname(target_file_path))
                /\ IF tool = "html"
                   THEN /\ files' = ((fpath \o HtmlExt) :>
                                       convert_to_html(source, YellowLines(info_list)))
                                    @@ files
                        /\ produced' = produced \cup {<<path, fpath \o HtmlExt>>}
                   ELSE /\ files' = (target_file_path :> WriteInfo(info_list)) @@ files
                        /\ produced' = produced \cup {<<path, target_file_path>>}
    /\ idx' = idx + 1
    /\ UNCHANGED <<log, relative_path, tool, source, pc, result, keys,
                   reports, code_lines, error>>

\* create_files_and_write_info and main return
Return ==
    /\ pc = "create"
    /\ idx > Len(keys)
    /\ pc' = "done"
    /\ UNCHANGED <<log, relative_path, tool, source, idx, result, keys, files, dirs,
                   produced, reports, code_lines, error>>

NextTrace == ReadLine \/ SortKeys \/ CreateFile \/ Return

SpecTrace == InitTrace /\ [][NextTrace]_vars

----------------------------------------------------------------------------
(* Properties of the trace tool *)

\* the record pattern, read declaratively: the line is
\* <path>(<lineno>):<one whitespace character><code>
IsRecordAt(line, k, e) ==
    /\ line[k] = "("
    /\ e > k
    /\ \A j \in (k + 1)..e : IsDigit(line[j])
    /\ e + 3 <= Len(line)
    /\ line[e + 1] = ")"
    /\ line[e + 2] = ":"
    /\ IsSpace(line[e + 3])

IsRecordLine(line) == \E k, e \in 1..Len(line) : IsRecordAt(line, k, e)

\* the path, the line number and the code of a record line: the path is the
\* shortest one, the code is the rest of the line without its newline
RecordOf(line) ==
    LET k == CHOOSE k \in 1..Len(line) :
                 /\ \E e \in 1..Len(line) : IsRecordAt(line, k, e)
                 /\ \A j \in 1..(k - 1) : \A e \in 1..Len(line) : ~IsRecordAt(line, j, e)
        e == CHOOSE e \in 1..Len(line) : IsRecordAt(line, k, e)
        rest == Drop(line, e + 3)
    IN  [path |-> Take(line, k - 1),
         pair |-> <<SubSeq(line, k + 1, e),
                    IF rest # <<>> /\ rest[Len(rest)] = NL
                    THEN Take(rest, Len(rest) - 1) ELSE rest>>]

\* the (lineno, code) pairs the log holds for a path
PairsOf(path) ==
    {RecordOf(log[k]).pair : k \in {j \in 1..Len(log) :
        IsRecordLine(log[j]) /\ RecordOf(log[j]).path = path}}

PathsOf == {RecordOf(log[k]).path : k \in {j \in 1..Len(log) : IsRecordLine(log[j])}}

Parsed == pc \in {"create", "done"}

\* C1: after extract_info_from_file returns, the list of every path holds
\* exactly the distinct (lineno, code) pairs matched for the path, each once,
\* with int(lineno) non-decreasing along the list; pairs that differ only in
\* their code (or only in the spelling of the number) both remain.
C1_DedupSorted ==
    Parsed =>
        /\ DOMAIN result = PathsOf
        /\ \A path \in DOMAIN result :
              LET lst == result[path]
              IN  /\ Range(lst) = PairsOf(path)
                  /\ Len(lst) = Cardinality(PairsOf(path))
                  /\ \A a, b \in 1..Len(lst) :
                        a < b => IntOf(lst[a][1]) <= IntOf(lst[b][1])

\* a duplicate has collapsed and line 2 has been put before line 10
C1_Witness ==
    /\ Parsed
    /\ log = << Rec(PathMA, <<"1", "0">>, <<"y">>),
                Rec(PathMA, <<"2">>, <<"x">>),
                Rec(PathMA, <<"2">>, <<"x">>) >>
    /\ result[PathMA] = << <<(<<"2">>), (<<"x">>)>>, <<(<<"1", "0">>), (<<"y">>)>> >>

\* the dictionary built from the lines of a log, from the left
RECURSIVE Accumulate(_)
Accumulate(lines) ==
    IF lines = <<>> THEN [result |-> NoFiles, keys |-> <<>>]
    ELSE AddLine(Accumulate(SubSeq(lines, 1, Len(lines) - 1)), lines[Len(lines)])

\* C2: a line that does not match the record pattern adds no record and
\* raises no error: the dictionary is, at every point of the reading loop,
\* the one built from the record lines read so far alone.
C2_UnmatchedIgnored ==
    pc = "read" =>
        /\ error = "none"
        /\ [result |-> result, keys |-> keys]
             = Accumulate(SelectSeq(Take(log, idx - 1), IsRecordLine))
        /\ DOMAIN result \subseteq PathsOf

\* a line that is no record has been read between two lines that are
C2_Witness ==
    /\ pc = "read"
    /\ idx = 4
    /\ IsRecordLine(log[1])
    /\ ~IsRecordLine(log[2])
    /\ IsRecordLine(log[3])
    /\ Len(keys) = 2

\* sub occurs in s as a substring
IsSubstring(sub, s) ==
    \E a \in 0..Len(s) : \E b \in a..Len(s) : SubSeq(s, a + 1, b) = sub

\* the paths whose loop iteration is over
Processed == IF pc = "done" THEN Range(keys)
             ELSE IF pc = "create" THEN {keys[k] : k \in 1..(idx - 1)}
             ELSE {}

\* C3: an output file is produced for a path iff the filter occurs in it; a
\* path without the filter creates no file, no directory and no error.
C3_FilterIsSubstring ==
    /\ error = "none"
    /\ \A path \in Processed :
          (\E loc \in DOMAIN files : <<path, loc>> \in produced)
              <=> IsSubstring(relative_path, path)
    /\ \A pl \in produced : pl[1] \in Processed /\ pl[2] \in DOMAIN files
    /\ DOMAIN files = {pl[2] : pl \in produced}
    /\ (\A path \in Processed : ~IsSubstring(relative_path, path))
          => files = NoFiles /\ dirs = {}

\* one path was written and another one skipped
C3_Witness ==
    /\ pc = "done"
    /\ relative_path = <<"/", "m">>
    /\ \E loc \in DOMAIN files : <<PathMA, loc>> \in produced
    /\ PathAA \in Processed
    /\ Cardinality(produced) = 1

\* s without the first occurrence of old
RECURSIVE RemoveFirst(_, _)
RemoveFirst(s, old) ==
    IF OccursAt(s, old, 1) THEN Drop(s, Len(old))
    ELSE IF s = <<>> THEN <<>>
    ELSE <<Head(s)>> \o RemoveFirst(Tail(s), old)

\* the rewritten path: the first occurrence of the filter removed, then one
\* leading separator of the result dropped
Rewritten(path, rel) ==
    LET r == RemoveFirst(path, rel)
    IN  IF r # <<>> /\ r[1] = "/" THEN Drop(r, 1) ELSE r

\* where the output of a path belongs
LocationOf(path) ==
    IF tool = "html" THEN Rewritten(path, relative_path) \o HtmlExt
    ELSE Join(current_dir, Rewritten(path, relative_path))

\* C4: the rewritten path of every retained path is the path without the
\* first occurrence of the filter and without one leading separator of that
\* result, and the output goes to the location made of it.
C4_RewrittenPath ==
    \A pl \in produced : pl[2] = LocationOf(pl[1])

\* C5: after a run of the plain-text tool every path that contains the
\* filter has an output file at its rewritten path, joined onto the tool's
\* directory, that holds one line "<lineno> : <code>" per record of the
\* path, in the sorted order of the parsed mapping.
C5_ListingWritten ==
    (pc = "done" /\ tool = "text") =>
        \A path \in Range(keys) :
            IsSubstring(relative_path, path) =>
                LET loc == Join(current_dir, Rewritten(path, relative_path))
                IN  /\ loc \in DOMAIN files
                    /\ Len(files[loc]) = Len(result[path])
                    /\ \A k \in 1..Len(result[path]) :
                          files[loc][k] = result[path][k][1] \o <<" ", ":", " ">>
                                            \o result[path][k][2] \o <<NL>>
                    /\ \A a, b \in 1..Len(result[path]) :
                          a < b => IntOf(result[path][a][1]) <= IntOf(result[path][b][1])

\* the line-number labels the log holds for a path
LabelsOf(path) == {pair[1] : pair \in PairsOf(path)}

\* the path whose loop iteration has just ended
LastPath == keys[idx - 1]

\* C6: the HTML written for a path has one row per line of the source file,
\* numbered from 1 in file order; row i is highlighted, on both of its
\* cells, iff the decimal string of i is one of the line-number labels of the
\* path's records, whatever their order, their number and their code.
C6_RowsAndHighlights ==
    (pc = "create" /\ idx > 1 /\ tool = "html"
        /\ IsSubstring(relative_path, LastPath)) =>
        \E loc \in DOMAIN files :
            /\ <<LastPath, loc>> \in produced
            /\ Len(files[loc]) = Len(source)
            /\ \A i \in 1..Len(source) :
                  LET row == files[loc][i]
                  IN  /\ row.data_value = Str(i)
                      /\ IntOf(row.data_value) = i
                      /\ row.number_blue = (Str(i) \in LabelsOf(LastPath))
                      /\ row.code_blue = (Str(i) \in LabelsOf(LastPath))
                      /\ row.text = Escape(source[i])

\* a file of three lines rendered for the records 2 (twice, with different
\* code) and 02: row 2 is highlighted, rows 1 and 3 are not
C6_Witness ==
    /\ pc = "create" /\ idx > 1 /\ tool = "html"
    /\ Len(source) = 3
    /\ LastPath = PathMA
    /\ Len(result[PathMA]) = 3
    /\ LabelsOf(PathMA) = {<<"2">>, <<"0", "2">>}
    /\ \E loc \in DOMAIN files :
          /\ <<LastPath, loc>> \in produced
          /\ files[loc][2].code_blue /\ files[loc][2].number_blue
          /\ ~files[loc][1].code_blue /\ ~files[loc][3].number_blue

----------------------------------------------------------------------------
(* dump_code.py *)

\* a value that may be None: <<>> is None, <<s>> is the string s
None == <<>>
Some(s) == <<s>>

\* s.strip()
RECURSIVE LStrip(_)
LStrip(s) == IF s # <<>> /\ IsSpace(s[1]) THEN LStrip(Tail(s)) ELSE s

RECURSIVE RStrip(_)
RStrip(s) ==
    IF s # <<>> /\ IsSpace(s[Len(s)]) THEN RStrip(SubSeq(s, 1, Len(s) - 1)) ELSE s

Strip(s) == LStrip(RStrip(s))

HasColon(s) == \E k \in 1..Len(s) : s[k] = ":"

\* a variant of the split without the final [1:]
SplitCodeKeepFirst(s) ==
    LET c == CHOOSE k \in 1..Len(s) : s[k] = ":" /\ \A j \in 1..(k - 1) : s[j] # ":"
    IN  Drop(s, c)

\* s.split(':', 1)[1][1:], for s that holds a colon (without one, [1] raises
\* IndexError)
SplitCode(s) ==
    LET c == CHOOSE k \in 1..Len(s) : s[k] = ":" /\ \A j \in 1..(k - 1) : s[j] # ":"
    IN  Drop(Drop(s, c), 1)

\* a variant of get_code_line that returns '' for a text without a colon
get_code_line_lenient(element) ==
    IF element.kind = "none" THEN [raised |-> FALSE, value |-> None]
    ELSE LET stripped == Strip(element.text)
         IN  [raised |-> FALSE,
              value |-> Some(IF HasColon(stripped) THEN SplitCode(stripped) ELSE <<>>)]

\* The next sibling of a lineNum marker, as get_code_line sees it:
\*   kind "none": there is no next sibling (element is None)
\*   kind "span": a span; text is its text content
\*   kind "br":   a br; text is the str() of the nodes after it, up to the next span
\*   kind "text": a string node; text is the string
\* get_code_line(element): [raised |-> whether it raises IndexError, value |-> ...]
get_code_line(element) ==
    IF element.kind = "none" THEN [raised |-> FALSE, value |-> None]
    ELSE LET stripped == Strip(element.text)
         IN  IF HasColon(stripped)
             THEN [raised |-> FALSE, value |-> Some(SplitCode(stripped))]
             ELSE [raised |-> TRUE, value |-> None]

source_folder ==
    <<"p", "r", "e", "p", "r", "o", "c", "e", "s", "s", "_", "r", "e", "s", "u", "l", "t">>

target_folder ==
    <<"p", "r", "e", "p", "r", "o", "c", "e", "s", "s", "_", "c", "o", "d", "e">>

GcovHtml == <<".", "g", "c", "o", "v", ".", "h", "t", "m", "l">>

\* target_file_path of process_html_files
TargetPath(source_file_path) ==
    Replace(Replace(source_file_path, source_folder, target_folder), GcovHtml, <<>>)

(* The inputs of dump_code *)

Span(text) == [kind |-> "span", text |-> text]

Siblings ==
    { Span(<<" ", " ", "1", "2", ":", " ", " ", "r", ";">>),
      Span(<<"1", ":", " ", "x", " ">>),
      Span(<<"x">>),
      [kind |-> "none", text |-> <<>>],
      [kind |-> "br", text |-> <<NL, "2", " ", ":", TAB, "z", ":", NL>>],
      [kind |-> "text", text |-> <<" ", "y", NL>>] }

FileNames ==
    { <<"x">> \o GcovHtml,
      <<"x">> \o GcovHtml \o GcovHtml,
      <<"y">> \o GcovHtml,
      <<"x", ".", "c">> }

BatchDocs ==
    { << Span(<<"1", ":", " ", "a">>) >>,
      << Span(<<"1", ":", " ", "a">>), Span(<<"2", ":", " ", "b">>) >>,
      << Span(<<"1", ":", " ", "a">>), [kind |-> "none", text |-> <<>>] >>,
      << Span(<<"1", ":", " ", "a">>), [kind |-> "text", text |-> <<" ", "y", NL>>] >> }

Report(f, doc) == [path |-> Join(source_folder, f), doc |-> doc]

\* the files of the source folder are distinct
DistinctPaths(rs) == \A a, b \in 1..Len(rs) : a # b => rs[a].path # rs[b].path

InitCommon ==
    /\ log = <<>>
    /\ relative_path = <<>>
    /\ tool = "dump"
    /\ source = <<>>
    /\ pc = "walk"
    /\ idx = 1
    /\ result = NoFiles
    /\ keys = <<>>
    /\ files = NoFiles
    /\ dirs = {}
    /\ produced = {}
    /\ code_lines = <<>>
    /\ error = "none"

\* a batch: the files os.walk yields, in the order it yields them
InitDump ==
    /\ reports \in {rs \in SeqsUpTo({Report(f, doc) : f \in FileNames, doc \in BatchDocs},
                                    MaxFiles) : DistinctPaths(rs)}
    /\ InitCommon

\* one report, with any markers
InitExtract ==
    /\ reports \in {<<Report(<<"x">> \o GcovHtml, doc)>> :
                        doc \in SeqsUpTo(Siblings, MaxMarkers)}
    /\ InitCommon

Current == reports[idx]

\* process_html_files, one iteration of `for f in files` up to the end of the
\* loop over line_nums in extract_code_from_html (dump_code.py 56-67, 6-27)
Visit ==
    /\ pc = "walk"
    /\ idx <= Len(reports)
    /\ IF ~EndsWith(Current.path, GcovHtml)
       THEN /\ idx' = idx + 1
            /\ UNCHANGED <<pc, dirs, code_lines, error>>
       ELSE LET doc == Current.doc
                got == [k \in 1..Len(doc) |-> get_code_line(doc[k])]
            IN  /\ dirs' = dirs \cup MakeDirs(Dirname(TargetPath(Current.path)))
                /\ idx' = idx
                /\ IF \E k \in 1..Len(doc) : got[k].raised
                   THEN /\ error' = "IndexError"
                        /\ pc' = "failed"
                        /\ code_lines' = code_lines
                   ELSE /\ code_lines' = [k \in 1..Len(doc) |-> got[k].value]
                        /\ pc' = "open"
                        /\ error' = error
    /\ UNCHANGED <<log, relative_path, tool, source, result, keys, files, produced,
                   reports>>

\* open(target_file_path, 'w') (line 28)
Open ==
    /\ pc = "open"
    /\ files' = (TargetPath(Current.path) :> <<>>) @@ files
    /\ produced' = produced \cup {<<idx, TargetPath(Current.path)>>}
    /\ pc' = "write"
    /\ UNCHANGED <<log, relative_path, tool, source, idx, result, keys, dirs,
                   reports, code_lines, error>>

\* f.write(line + '\n') (lines 29-30); None + '\n' raises TypeError, and the
\* with statement closes the file with what was written before
WriteLine ==
    /\ pc = "write"
    /\ LET target == TargetPath(Current.path)
           n == Len(files[target])
       IN  /\ n < Len(code_lines)
           /\ IF code_lines[n + 1] = None
              THEN /\ error' = "TypeError"
                   /\ pc' = "failed"
                   /\ files' = files
              ELSE /\ files' = [files EXCEPT ![target] =
                                   Append(@, code_lines[n + 1][1] \o <<NL>>)]
                   /\ UNCHANGED <<pc, error>>
    /\ UNCHANGED <<log, relative_path, tool, source, idx, result, keys, dirs,
                   produced, reports, code_lines>>

\* the file is closed and extract_code_from_html returns (line 33)
Close ==
    /\ pc = "write"
    /\ Len(files[TargetPath(Current.path)]) = Len(code_lines)
    /\ pc' = "walk"
    /\ idx' = idx + 1
    /\ UNCHANGED <<log, relative_path, tool, source, result, keys, files, dirs,
                   produced, reports, code_lines, error>>

\* os.walk is exhausted
Finish ==
    /\ pc = "walk"
    /\ idx > Len(reports)
    /\ pc' = "done"
    /\ UNCHANGED <<log, relative_path, tool, source, idx, result, keys, files, dirs,
                   produced, reports, code_lines, error>>

NextDump == Visit \/ Open \/ WriteLine \/ Close \/ Finish

SpecDump == InitDump /\ [][NextDump]_vars

SpecExtract == InitExtract /\ [][NextDump]_vars

----------------------------------------------------------------------------
(* Properties of dump_code *)

\* the report of the one-report runs
TheDoc == reports[1].doc

\* extract_code_from_html has built its list for the report
Extracted == pc \in {"open", "write", "done"} \/ (pc = "walk" /\ idx = 2)

\* every marker's sibling is a span whose text holds a colon
AllSpansWithColon(doc) ==
    \A k \in 1..Len(doc) :
        doc[k].kind = "span" /\ \E j \in 1..Len(doc[k].text) : doc[k].text[j] = ":"

\* t is s without everything up to and including its first colon and the one
\* character after it
IsAfterColon(t, s) ==
    \E c \in 1..Len(s) :
        /\ s[c] = ":"
        /\ \A j \in 1..(c - 1) : s[j] # ":"
        /\ t = [j \in 1..(IF Len(s) - c - 1 > 0 THEN Len(s) - c - 1 ELSE 0) |->
                   s[c + 1 + j]]

\* t is s without its leading and trailing whitespace
IsStripOf(t, s) ==
    \E a \in 1..(Len(s) + 1) : \E b \in 0..Len(s) :
        /\ t = SubSeq(s, a, b)
        /\ \A j \in 1..(a - 1) : IsSpace(s[j])
        /\ \A j \in (b + 1)..Len(s) : IsSpace(s[j])
        /\ t # <<>> => ~IsSpace(t[1]) /\ ~IsSpace(t[Len(t)])
        /\ t = <<>> => \A j \in 1..Len(s) : IsSpace(s[j])

\* C7 as stated: with only span siblings that hold a colon, the list has one
\* string per marker, in document order, each the sibling's full text without
\* everything up to and including the first colon and the character after it.
C7_FullTextAfterColon ==
    (Extracted /\ AllSpansWithColon(TheDoc)) =>
        /\ Len(code_lines) = Len(TheDoc)
        /\ \A k \in 1..Len(TheDoc) :
              /\ code_lines[k] # None
              /\ IsAfterColon(code_lines[k][1], TheDoc[k].text)

\* C7 as amended: each string is the sibling's text, stripped of its leading
\* and trailing whitespace, without everything up to and including the first
\* colon and the character after it.
C7_StrippedTextAfterColon ==
    (Extracted /\ AllSpansWithColon(TheDoc)) =>
        /\ Len(code_lines) = Len(TheDoc)
        /\ \A k \in 1..Len(TheDoc) :
              /\ code_lines[k] # None
              /\ \E t \in {SubSeq(TheDoc[k].text, a, b) :
                             a \in 1..(Len(TheDoc[k].text) + 1),
                             b \in 0..Len(TheDoc[k].text)} :
                    /\ IsStripOf(t, TheDoc[k].text)
                    /\ IsAfterColon(code_lines[k][1], t)

\* the report "  12:  r;", "1: x " has been extracted and written
C7_Witness ==
    /\ pc = "done"
    /\ AllSpansWithColon(TheDoc)
    /\ Len(TheDoc) = 2
    /\ code_lines = << Some(<<" ", "r", ";">>), Some(<<"x">>) >>
    /\ Len(files[TargetPath(reports[1].path)]) = 2

\* a marker has a sibling whose text holds no colon
HasColonless(doc) ==
    \E k \in 1..Len(doc) :
        doc[k].kind # "none" /\ \A j \in 1..Len(doc[k].text) : doc[k].text[j] # ":"

HasNoSibling(doc) == \E k \in 1..Len(doc) : doc[k].kind = "none"

\* C8: a marker without a next sibling does not make the extraction fail:
\* it completes and the target file gets one line per marker.
C8_NoSiblingTolerated ==
    (HasNoSibling(TheDoc) /\ ~HasColonless(TheDoc)) =>
        /\ pc # "failed"
        /\ pc = "done" => Len(files[TargetPath(reports[1].path)]) = Len(TheDoc)

IsReport(r) == EndsWith(r.path, GcovHtml)

\* the lines extract_code_from_html writes for a report it completes
OutputOf(doc) == [k \in 1..Len(doc) |-> get_code_line(doc[k]).value[1] \o <<NL>>]

\* C9: the reports are processed one after another; the output file of every
\* report processed earlier stays complete and unchanged whatever happens to
\* a later one, and after a failure no further report is processed.
C9_EarlierOutputsIntact ==
    /\ \A pl \in produced :
          /\ pl[1] <= idx
          /\ pl[1] < idx => files[pl[2]] = OutputOf(reports[pl[1]].doc)
    /\ pc = "failed" => \A k \in (idx + 1)..Len(reports) :
                           \A loc \in DOMAIN files : <<k, loc>> \notin produced

\* a report with a marker whose sibling text holds no colon fails with the
\* IndexError, is never passed over, and has opened no file
C10_State ==
    /\ (idx <= Len(reports) /\ IsReport(Current) /\ HasColonless(Current.doc)) =>
          /\ pc \in {"walk", "failed"}
          /\ pc = "failed" => error = "IndexError"
          /\ \A loc \in DOMAIN files : <<idx, loc>> \notin produced
    /\ \A k \in 1..(idx - 1) :
          (k <= Len(reports) /\ IsReport(reports[k])) => ~HasColonless(reports[k].doc)
    /\ error = "IndexError" => pc = "failed" /\ HasColonless(Current.doc)

\* the step that reads such a report ends the run and leaves the files alone
C10_Step ==
    (pc = "walk" /\ idx <= Len(reports) /\ IsReport(Current)
        /\ HasColonless(Current.doc)) =>
        /\ pc' = "failed"
        /\ error' = "IndexError"
        /\ files' = files
        /\ produced' = produced

\* C10: the state part in every state and the step part on every step: the
\* report with a colonless sibling fails with the IndexError before its
\* target file is opened, and the file is neither created nor modified.
C10_ColonlessFails == [] C10_State /\ [][C10_Step]_vars

\* a report without a colon failed after an earlier report was written
C10_Witness ==
    /\ pc = "failed"
    /\ error = "IndexError"
    /\ idx = 2
    /\ files # NoFiles

====
